---- MODULE Spec2Model ----
(***************************************************************************)
(* Construct: the supervisor/worker orchestration engine.                  *)
(*                                                                         *)
(* Run State (src/agent/state.py) is the record `state`; `node` is the     *)
(* graph position of the LangGraph workflow built in src/agent/graph.py.   *)
(* The node functions of src/agent/nodes.py are operators that take the    *)
(* current state and the behaviour of the collaborators (model, tools)     *)
(* and give back either a raised exception or the state after the node's   *)
(* partial update has been merged (scalars overwrite, messages append).    *)
(*                                                                         *)
(* Two specifications:                                                     *)
(*   Spec / FairSpec  one run of the graph from create_initial_state       *)
(*   SpecNode         a single call of should_continue / supervisor_node / *)
(*                    route_supervisor on a caller-supplied state          *)
(***************************************************************************)
EXTENDS Integers, Sequences, FiniteSets, TLC

VARIABLES state, node, last, call, script, breaker, now, inflight, limiter, hist

vars == <<state, node, last, call, script, breaker, now, inflight, limiter, hist>>

(***************************************************************************)
(* Bounds of the model                                                     *)
(***************************************************************************)
\* largest max_iterations a run is started with (state.py sets 25)
MaxIter == 3
\* largest number of words in a supervisor reply
MaxWords == 2
\* largest iteration_count / max_iterations of a caller-supplied state
ProbeIter == 3

\* the largest max_retries a caller passes to retry_with_backoff
ProbeRetries == 4

\* the clock is read in ticks; this many ticks make a second
TicksPerSecond == 2

\* the coroutines that call through one breaker at the same time
MaxCallers == 2

\* the seconds over which the rate limiter's clock is followed tick by tick
MaxWait == 2

\* the threads of the process that execute the node functions of runs
MaxThreads == 1

\* the configurations of a rate limiter, besides the default one: up to
\* MaxRate requests per minute, a burst of up to MaxBurst
MaxRate == 1

MaxBurst == 1

(***************************************************************************)
(* Values                                                                  *)
(***************************************************************************)
\* Python None for an Optional[Dict] field
None == [none |-> TRUE]

END == "__end__"

\* where an exception that escapes a node leaves the graph
RAISED == "__raised__"

Workers == {"planner", "researcher", "coder", "reviewer"}

Steps == {"supervisor", "planner", "researcher", "coder", "reviewer", "FINISH"}

IsPrefix(s, t) == Len(s) <= Len(t) /\ SubSeq(t, 1, Len(s)) = s

\* dict.get(key, default)
DictGet(d, key, default) == IF key \in DOMAIN d THEN d[key] ELSE default

\* what a node did besides updating the state: the llm.invoke calls it made, how
\* the wrapped model call ended, the action it parsed, and how a tool was run
Info(calls, llm, action, tool) ==
    [calls |-> calls, llm |-> llm, action |-> action, tool |-> tool, exc |-> FALSE]

\* the same, for a node that ends in its `except Exception` branch
Caught(info) == [info EXCEPT !.exc = TRUE]

\* the outcome of a Python call: a returned value or a raised exception
Return(v, info) == [raised |-> FALSE, state |-> v, info |-> info]

Raise(v, info) == [raised |-> TRUE, state |-> v, info |-> info]

(***************************************************************************)
(* state.py                                                                *)
(***************************************************************************)
\* A text is the literals it starts with, in order, followed by `pad` more
\* characters; the literals written here are all shorter than any slice taken.
Text(parts, pad) == [parts |-> parts, pad |-> pad]

RECURSIVE PartsLen(_)
PartsLen(parts) == IF parts = << >> THEN 0 ELSE Len(Head(parts)) + PartsLen(Tail(parts))

\* len(text)
TextLen(text) == PartsLen(text.parts) + text.pad

\* text[:n]
Slice(text, n) ==
    IF TextLen(text) <= n THEN text ELSE [text EXCEPT !.pad = n - PartsLen(text.parts)]

\* f"{prefix}{text}"
Format(prefix, text) == Text(<< prefix >> \o text.parts, text.pad)

Ordinary == Text(<< "text" >>, 0)

\* a message: its class, what it is and the text it carries
Message(type, kind, body) == [type |-> type, kind |-> kind, body |-> body]

create_initial_state(max_iterations) ==
    [ messages        |-> << Message("Human", "user message", Ordinary) >>,
      next_step       |-> "supervisor",
      current_agent   |-> "supervisor",
      iteration_count |-> 0,
      max_iterations  |-> max_iterations,
      tool_results    |-> << >>,
      memory          |-> << [role |-> "user", agent |-> "None"] >>,
      reflection      |-> "",
      plan            |-> "None",
      error_context   |-> None ]

should_continue_ignores_cap(s) ==
    IF s.next_step = "FINISH" THEN FALSE
    ELSE IF s.error_context # None /\ DictGet(s.error_context, "fatal", FALSE) THEN FALSE
    ELSE TRUE

should_continue(s) ==
    IF s.iteration_count >= s.max_iterations THEN FALSE
    ELSE IF s.next_step = "FINISH" THEN FALSE
    ELSE IF s.error_context # None /\ DictGet(s.error_context, "fatal", FALSE) THEN FALSE
    ELSE TRUE

add_tool_result_replaces(s, tool_name, output, success) ==
    << [tool_name |-> tool_name, output |-> output, success |-> success] >>

add_tool_result(s, tool_name, output, success) ==
    s.tool_results \o << [tool_name |-> tool_name, output |-> output, success |-> success] >>

add_memory(s, role, agent) ==
    s.memory \o << [role |-> role, agent |-> agent] >>

(***************************************************************************)
(* graph.py                                                                *)
(***************************************************************************)
route_supervisor(s) ==
    IF ~should_continue(s) THEN END
    ELSE IF s.next_step = "FINISH" THEN END
    ELSE IF s.next_step \in Workers THEN s.next_step
    ELSE "coder"

\* workflow.add_edge(worker, "supervisor")
edge_skips_supervisor(worker) == IF worker = "reviewer" THEN END ELSE "supervisor"

edge(worker) == "supervisor"

(***************************************************************************)
(* services/circuit_breaker.py: the breaker registered for the model, "llm" *)
(* `breaker` is its CircuitBreakerState, `now` the reading of time.time(),  *)
(* counted in ticks of 1/TicksPerSecond second.                            *)
(***************************************************************************)
Seconds(s) == s * TicksPerSecond

failure_threshold == 5

success_threshold == 2

timeout_seconds == 30

call_timeout == 10

\* a caller of the breaker is idle or awaits the wrapped call since `started`
Idle == [awaiting |-> FALSE, started |-> 0]

Awaiting(time) == [awaiting |-> TRUE, started |-> time]

NoneInFlight == [c \in 1..MaxCallers |-> Idle]

\* CircuitBreaker(name): a new breaker
CircuitBreaker ==
    [state |-> "closed", failure_count |-> 0, success_count |-> 0, last_failure_time |-> 0]

check_state_transition_never(b, time) == b

check_state_transition_keeps_count(b, time) ==
    IF b.state = "open" /\ time - b.last_failure_time >= Seconds(timeout_seconds)
    THEN [b EXCEPT !.state = "half_open"]
    ELSE b

\* nothing in it awaits: it runs in one piece
check_state_transition(b, time) ==
    IF b.state = "open" /\ time - b.last_failure_time >= Seconds(timeout_seconds)
    THEN [b EXCEPT !.state = "half_open", !.success_count = 0]
    ELSE b

record_success_keeps_failures(b) ==
    IF b.state = "half_open"
    THEN IF b.success_count + 1 >= success_threshold
         THEN [b EXCEPT !.success_count = @ + 1, !.state = "closed"]
         ELSE [b EXCEPT !.success_count = @ + 1]
    ELSE b

record_success_closes_open(b) ==
    IF b.state \in {"half_open", "open"}
    THEN IF b.success_count + 1 >= success_threshold
         THEN [b EXCEPT !.success_count = @ + 1, !.state = "closed", !.failure_count = 0]
         ELSE [b EXCEPT !.success_count = @ + 1]
    ELSE IF b.state = "closed"
    THEN [b EXCEPT !.failure_count = IF @ - 1 > 0 THEN @ - 1 ELSE 0]
    ELSE b

record_success_resets(b) ==
    IF b.state = "half_open"
    THEN IF b.success_count + 1 >= success_threshold
         THEN [b EXCEPT !.success_count = @ + 1, !.state = "closed", !.failure_count = 0]
         ELSE [b EXCEPT !.success_count = @ + 1]
    ELSE IF b.state = "closed"
    THEN [b EXCEPT !.failure_count = 0]
    ELSE b

\* the lock is taken and released without an await in between
record_success(b) ==
    IF b.state = "half_open"
    THEN IF b.success_count + 1 >= success_threshold
         THEN [b EXCEPT !.success_count = @ + 1, !.state = "closed", !.failure_count = 0]
         ELSE [b EXCEPT !.success_count = @ + 1]
    ELSE IF b.state = "closed"
    THEN [b EXCEPT !.failure_count = IF @ - 1 > 0 THEN @ - 1 ELSE 0]
    ELSE b

record_failure_opens_late(b, time) ==
    LET counted == [b EXCEPT !.failure_count = @ + 1, !.last_failure_time = time]
    IN  IF b.state = "half_open" THEN [counted EXCEPT !.state = "open"]
        ELSE IF b.state = "closed" /\ counted.failure_count > failure_threshold
        THEN [counted EXCEPT !.state = "open"]
        ELSE counted

record_failure_after_success(b, time) ==
    LET counted == [b EXCEPT !.failure_count = @ + 1, !.last_failure_time = time]
    IN  IF b.state = "half_open" /\ b.success_count = 0 THEN [counted EXCEPT !.state = "open"]
        ELSE IF b.state = "closed" /\ counted.failure_count >= failure_threshold
        THEN [counted EXCEPT !.state = "open"]
        ELSE counted

record_failure(b, time) ==
    LET counted == [b EXCEPT !.failure_count = @ + 1, !.last_failure_time = time]
    IN  IF b.state = "half_open" THEN [counted EXCEPT !.state = "open"]
        ELSE IF b.state = "closed" /\ counted.failure_count >= failure_threshold
        THEN [counted EXCEPT !.state = "open"]
        ELSE counted

\* the wrapped function run once the call is admitted in state `checked`;
\* a call that times out is cancelled call_timeout after it began
CircuitBreaker_invoke(checked, time, outcome) ==
    IF outcome = "return"
    THEN [breaker |-> record_success(checked), checked |-> checked, invoked |-> TRUE,
          raised |-> "none", returned |-> "result", time |-> time]
    ELSE IF outcome = "timeout"
    THEN [breaker |-> record_failure(checked, time + Seconds(call_timeout)),
          checked |-> checked, invoked |-> TRUE, raised |-> "TimeoutError",
          returned |-> "nothing", time |-> time + Seconds(call_timeout)]
    ELSE [breaker |-> record_failure(checked, time), checked |-> checked,
          invoked |-> TRUE, raised |-> "Exception", returned |-> "nothing", time |-> time]

CircuitBreaker_call_unguarded(b, time, outcome) ==
    CircuitBreaker_invoke(check_state_transition(b, time), time, outcome)

\* CircuitBreaker.call by a caller that awaits it; `outcome` is what the
\* wrapped function does: "return", "raise", or "timeout".  `time` is the
\* clock when the call is made.
CircuitBreaker_call(b, time, outcome) ==
    LET checked == check_state_transition(b, time)
    IN  IF checked.state = "open"
        THEN [breaker |-> checked, checked |-> checked, invoked |-> FALSE,
              raised |-> "CircuitOpenError", returned |-> "nothing", time |-> time]
        ELSE CircuitBreaker_invoke(checked, time, outcome)

(***************************************************************************)
(* middleware/rate_limiter.py                                              *)
(***************************************************************************)
requests_per_minute == 60

burst_size == 10

cleanup_interval == 300

inactive_threshold == 300

\* the client identifiers that send requests
Clients == {"a", "b"}

\* tokens is a float; it is held here as a whole number of 1/TokenScale of a
\* token, so that what a bucket gains in one tick, refill_rate / TicksPerSecond
\* tokens, is the whole number requests_per_minute
TokenScale == 60 * TicksPerSecond

Min(a, b) == IF a <= b THEN a ELSE b

\* TokenBucket(capacity, tokens, refill_rate) made at `time`, refill_rate
\* being per_minute / 60.0
TokenBucket(capacity, tokens, per_minute, time) ==
    [capacity |-> capacity, tokens |-> tokens * TokenScale, refill_rate |-> per_minute,
     last_update |-> time]

consume_uncapped(bucket, time) ==
    LET time_passed == time - bucket.last_update
        refilled    == bucket.tokens + time_passed * bucket.refill_rate
    IN  IF refilled >= TokenScale
        THEN [bucket  |-> [bucket EXCEPT !.last_update = time, !.tokens = refilled - TokenScale],
              allowed |-> TRUE]
        ELSE [bucket  |-> [bucket EXCEPT !.last_update = time, !.tokens = refilled],
              allowed |-> FALSE]

consume_more_than_one(bucket, time) ==
    LET time_passed == time - bucket.last_update
        refilled    == Min(bucket.capacity * TokenScale,
                           bucket.tokens + time_passed * bucket.refill_rate)
    IN  IF refilled > TokenScale
        THEN [bucket  |-> [bucket EXCEPT !.last_update = time, !.tokens = refilled - TokenScale],
              allowed |-> TRUE]
        ELSE [bucket  |-> [bucket EXCEPT !.last_update = time, !.tokens = refilled],
              allowed |-> FALSE]

\* bucket.consume(1) with the clock reading `time`
consume(bucket, time) ==
    LET time_passed == time - bucket.last_update
        refilled    == Min(bucket.capacity * TokenScale,
                           bucket.tokens + time_passed * bucket.refill_rate)
    IN  IF refilled >= TokenScale
        THEN [bucket  |-> [bucket EXCEPT !.last_update = time, !.tokens = refilled - TokenScale],
              allowed |-> TRUE]
        ELSE [bucket  |-> [bucket EXCEPT !.last_update = time, !.tokens = refilled],
              allowed |-> FALSE]

\* int(self.tokens)
remaining(bucket) == bucket.tokens \div TokenScale

\* RateLimiter(requests_per_minute, burst_size) as constructed at time 0: no
\* buckets
RateLimiterOf(per_minute, burst) ==
    [requests_per_minute |-> per_minute, burst_size |-> burst,
     buckets |-> [c \in Clients |-> None], last_cleanup |-> 0]

\* the limiter with its default arguments
RateLimiter == RateLimiterOf(requests_per_minute, burst_size)

cleanup_at_threshold(buckets, time) ==
    [c \in Clients |->
        IF buckets[c] # None /\ time - buckets[c].last_update >= Seconds(inactive_threshold)
        THEN None
        ELSE buckets[c]]

cleanup(buckets, time) ==
    [c \in Clients |->
        IF buckets[c] # None /\ time - buckets[c].last_update > Seconds(inactive_threshold)
        THEN None
        ELSE buckets[c]]

is_allowed_stale(l, client_id, time) ==
    LET swept  == IF time - l.last_cleanup > Seconds(cleanup_interval)
                  THEN [l EXCEPT !.buckets = cleanup(l.buckets, time), !.last_cleanup = time]
                  ELSE l
        had    == swept.buckets[client_id]
        bucket == IF had = None
                  THEN TokenBucket(l.burst_size, l.burst_size, l.requests_per_minute, time)
                  ELSE had
        r      == consume(bucket, time)
    IN  [limiter   |-> [swept EXCEPT !.buckets[client_id] =
                           IF had # None /\ had.last_update = time THEN had ELSE r.bucket],
         allowed   |-> r.allowed,
         remaining |-> remaining(r.bucket),
         client    |-> client_id,
         created   |-> had = None,
         swept     |-> swept # l]

\* is_allowed(client_id) with the clock reading `time`; the lock is held
\* throughout and nothing inside it waits
is_allowed(l, client_id, time) ==
    LET swept  == IF time - l.last_cleanup > Seconds(cleanup_interval)
                  THEN [l EXCEPT !.buckets = cleanup(l.buckets, time), !.last_cleanup = time]
                  ELSE l
        had    == swept.buckets[client_id]
        bucket == IF had = None
                  THEN TokenBucket(l.burst_size, l.burst_size, l.requests_per_minute, time)
                  ELSE had
        r      == consume(bucket, time)
    IN  [limiter   |-> [swept EXCEPT !.buckets[client_id] = r.bucket],
         allowed   |-> r.allowed,
         remaining |-> remaining(r.bucket),
         client    |-> client_id,
         created   |-> had = None,
         swept     |-> swept # l]

(***************************************************************************)
(* What a behaviour has done so far, kept for the properties:              *)
(*   failures   the failed calls in a row since the breaker was CLOSED     *)
(*              with failure_count 0                                       *)
(*   successes  the successful calls in a row made while HALF_OPEN         *)
(*   burst      how far the watched client is through a burst: requests    *)
(*              made less than a second after its bucket was created       *)
(*              ("burst", `admitted` of them allowed), one of them denied  *)
(*              at `denied_at` leaving `left` ("denied"), then, at the     *)
(*              later reading `resumed`, `asked` requests of which         *)
(*              `allowed` were admitted ("resumed"); it is followed for    *)
(*              one request more than the bucket can hold                  *)
(*   window     the requests of the watched client admitted since its      *)
(*              first request, made at `start`                             *)
(*   opened_at  when the breaker called by several callers last went OPEN  *)
(*   recovered  the dependency behind the breaker has recovered: every     *)
(*              wrapped call succeeds from here on                         *)
(*   supervisor_turns  the turns of the supervisor a run has completed     *)
(*   worker_turns      the turns the workers of a run have taken           *)
(***************************************************************************)
NoBurst ==
    [phase |-> "none", created |-> 0, admitted |-> 0, denied_at |-> 0, left |-> 0,
     resumed |-> 0, asked |-> 0, allowed |-> 0]

NoWindow == [open |-> FALSE, start |-> 0, admitted |-> 0]

NoHist ==
    [failures |-> 0, successes |-> 0, burst |-> NoBurst, window |-> NoWindow,
     opened_at |-> 0, recovered |-> FALSE, supervisor_turns |-> 0, worker_turns |-> 0]

\* a caller's result was recorded at `time`, taking the breaker from b to after
AfterRecord(h, b, after, time) ==
    IF b.state # "open" /\ after.state = "open" THEN [h EXCEPT !.opened_at = time] ELSE h

\* a request of the watched client answered with r at `time`
AfterAdmission(w, time, r) ==
    LET opened == IF w.open THEN w ELSE [NoWindow EXCEPT !.open = TRUE, !.start = time]
    IN  [opened EXCEPT !.admitted = IF r.allowed THEN @ + 1 ELSE @]

\* node n of a run took a turn that ended with out
AfterTurn(h, n, out) ==
    IF n = "supervisor"
    THEN [h EXCEPT !.supervisor_turns = IF out.raised THEN @ ELSE @ + 1]
    ELSE [h EXCEPT !.worker_turns = @ + 1]

\* the client whose bursts are followed
Watched == "a"

\* a request answered with r at `time`, when the watched client's burst is m
AfterRequest(m, time, r) ==
    IF r.client # Watched
    THEN m
    ELSE IF r.created
    THEN [NoBurst EXCEPT !.phase = "burst", !.created = time,
                         !.admitted = IF r.allowed THEN 1 ELSE 0]
    ELSE IF m.phase = "burst" /\ time - m.created < Seconds(1)
    THEN IF r.allowed
         THEN [m EXCEPT !.admitted = @ + 1]
         ELSE [m EXCEPT !.phase = "denied", !.denied_at = time,
                        !.left = r.limiter.buckets[r.client].tokens]
    ELSE IF m.phase = "denied" /\ time = m.denied_at
    THEN m
    ELSE IF m.phase = "denied"
    THEN [m EXCEPT !.phase = "resumed", !.resumed = time, !.asked = 1,
                   !.allowed = IF r.allowed THEN 1 ELSE 0]
    ELSE IF m.phase = "resumed" /\ time = m.resumed /\ m.asked <= burst_size
    THEN [m EXCEPT !.asked = @ + 1, !.allowed = IF r.allowed THEN @ + 1 ELSE @]
    ELSE NoBurst

\* a call through the breaker in state b, made at `time`, ended with r
AfterBreakerCall(h, b, time, r) ==
    LET failed    == r.invoked /\ r.raised # "none"
        succeeded == r.invoked /\ r.raised = "none"
        half_open == r.checked.state = "half_open"
    IN  [h EXCEPT
           !.failures  = IF ~failed THEN 0
                         ELSE IF b.state = "closed" /\ b.failure_count = 0 THEN 1
                         ELSE IF @ > 0 THEN @ + 1 ELSE 0,
           !.successes = IF succeeded /\ half_open THEN @ + 1 ELSE 0]

(***************************************************************************)
(* nodes.py: retry_with_backoff around llm.invoke                          *)
(* `fails` is the number of leading attempts of the call that raise.       *)
(***************************************************************************)
max_retries == 3

\* `func` is what the calls of the function do, in order: "return" or "raise".
\* The outcome tells how many calls were made and which call (`of`) gave the
\* result returned or the exception raised.
retry_once(attempt, func, retries) ==
    [raised |-> func[1] = "raise", calls |-> 1, of |-> 1]

RECURSIVE retry_loop(_, _, _)
retry_loop(attempt, func, retries) ==
    \* `raise last_exception` after a loop of no attempt: last_exception is None
    IF attempt >= retries THEN [raised |-> TRUE, calls |-> attempt, of |-> 0]
    ELSE IF func[attempt + 1] = "return"
    THEN [raised |-> FALSE, calls |-> attempt + 1, of |-> attempt + 1]
    ELSE IF attempt = retries - 1
    THEN [raised |-> TRUE, calls |-> attempt + 1, of |-> attempt + 1]
    ELSE retry_loop(attempt + 1, func, retries)

retry_with_backoff(func, retries) == retry_loop(0, func, retries)

\* llm.invoke raising on its first `fails` calls
Failing(fails) == [i \in 1..max_retries |-> IF i <= fails THEN "raise" ELSE "return"]

(***************************************************************************)
(* nodes.py: supervisor_node                                               *)
(* A model response is a sequence of words; the keywords hold no blank, so *)
(* a keyword is a substring of the response iff it is one of some word.    *)
(***************************************************************************)
Vocab == {"planner", "researcher", "Coder", "reviewer", "FINISH", "unfinished", "ok"}

Responses == UNION { [1..n -> Vocab] : n \in 0..MaxWords }

\* str.lower() on one word
LowerWord(w) ==
    CASE w = "Coder" -> "coder"
      [] w = "FINISH" -> "finish"
      [] OTHER -> w

\* response.content.strip().lower()
Lower(response) == [i \in DOMAIN response |-> LowerWord(response[i])]

\* Python `sub in word` on the words of the vocabulary
SubstringOfWord(sub, w) == w = sub \/ (sub = "finish" /\ w = "unfinished")

\* Python `sub in decision`
In(sub, decision) == \E i \in DOMAIN decision : SubstringOfWord(sub, decision[i])

agents == << "planner", "researcher", "coder", "reviewer" >>

first_agent_by_appearance(i, decision) ==
    LET named(k) == { j \in DOMAIN agents : SubstringOfWord(agents[j], decision[k]) }
        hits == { k \in DOMAIN decision : named(k) # {} }
    IN  IF hits = {} THEN "coder"
        ELSE LET k == CHOOSE h \in hits : \A g \in hits : h <= g
             IN  agents[CHOOSE j \in named(k) : TRUE]

RECURSIVE first_agent(_, _)
first_agent(i, decision) ==
    IF i > Len(agents) THEN "coder"
    ELSE IF In(agents[i], decision) THEN agents[i]
    ELSE first_agent(i + 1, decision)

parse_decision_role_first(decision) ==
    IF \E j \in DOMAIN agents : In(agents[j], decision) THEN first_agent(1, decision)
    ELSE IF In("finish", decision) THEN "FINISH"
    ELSE "coder"

parse_decision(decision) ==
    LET next_step == first_agent(1, decision)
    IN  IF In("finish", decision) THEN "FINISH" ELSE next_step

\* the branch taken at the iteration limit
supervisor_limit(s) ==
    Return([s EXCEPT !.next_step = "FINISH",
                     !.iteration_count = s.iteration_count + 1],
           Info(0, "none", "", "none"))

supervisor_except_no_increment(s, info) ==
    Return([s EXCEPT !.next_step = "FINISH",
                     !.error_context = [agent |-> "supervisor", fatal |-> FALSE]],
           Caught(info))

supervisor_except(s, info) ==
    Return([s EXCEPT !.next_step = "FINISH",
                     !.iteration_count = s.iteration_count + 1,
                     !.error_context = [agent |-> "supervisor", fatal |-> FALSE]],
           Caught(info))

supervisor_node_off_by_one(s, fails, response) ==
    IF s.iteration_count > s.max_iterations THEN supervisor_limit(s)
    ELSE LET r == retry_with_backoff(Failing(fails), max_retries) IN
         IF r.raised THEN supervisor_except(s, Info(r.calls, "raised", "", "none"))
         ELSE Return([s EXCEPT !.next_step = parse_decision(Lower(response)),
                               !.current_agent = "supervisor",
                               !.iteration_count = s.iteration_count + 1],
                     Info(r.calls, "returned", "", "none"))

supervisor_node(s, fails, response) ==
    IF s.iteration_count >= s.max_iterations THEN supervisor_limit(s)
    ELSE LET r == retry_with_backoff(Failing(fails), max_retries) IN
         IF r.raised THEN supervisor_except(s, Info(r.calls, "raised", "", "none"))
         ELSE Return([s EXCEPT !.next_step = parse_decision(Lower(response)),
                               !.current_agent = "supervisor",
                               !.iteration_count = s.iteration_count + 1],
                     Info(r.calls, "returned", "", "none"))

(***************************************************************************)
(* nodes.py: parse_json_action                                             *)
(* A str is a sequence of tokens: the fence mark, the tag json, a line     *)
(* break, the punctuation of JSON, and words                                *)
(* that hold none of these.  The text of a worker reply is given by its    *)
(* layout and the JSON text it carries:                                    *)
(*   bare        the JSON text alone                                       *)
(*   json_fence  the JSON text in a fence tagged json                      *)
(*   fence       the JSON text in an untagged fence                        *)
(*   embedded    the JSON text between two pieces of prose                 *)
(*   prose       no JSON text, no brace, no fence                          *)
(* and the JSON text is the serialization of an object (with an action,    *)
(* with or without arguments, or empty), of an array of numbers, or an     *)
(* object cut off before its closing brace.                                *)
(***************************************************************************)
\* the three backquotes that open and close a fenced block
Fence == "<fence>"

Tag == "json"

NL == "\n"

\* the double quote
Quote == "<quote>"

Actions == {"finish", "write_file", "read_file", "analyze_file", "search_code",
            "review_file", "deploy", ""}

\* what the string argument of an action may hold
Strings == { << "w" >>, << Fence >>, << Fence, Tag >>, << Fence, "{", "}", Fence >>,
             << "}" >> }

\* a parsed object: its action, whether it has arguments, and the string
\* among them
ObjectOf(action, args, text) ==
    [kind |-> "object", action |-> action, args |-> args, text |-> text]

Object(action, args) == ObjectOf(action, args, << "w" >>)

\* {}
EmptyObject == ObjectOf("<absent>", FALSE, << >>)

Array == [kind |-> "array", action |-> "", args |-> FALSE]

Invalid == [kind |-> "invalid", action |-> "", args |-> FALSE]

NoJson == [kind |-> "none", action |-> "", args |-> FALSE]

\* the values json.loads can return here
JsonValues ==
    { ObjectOf(a, TRUE, s) : a \in Actions, s \in Strings }
    \cup { Object(a, FALSE) : a \in Actions }
    \cup { EmptyObject, Array }

\* json.dumps(value)
json_dumps(value) ==
    IF value.kind = "array" THEN << "[", "1", ",", "2", "]" >>
    ELSE IF value = EmptyObject THEN << "{", "}" >>
    ELSE IF value.args
    THEN << "{", Quote, "action", Quote, ":", Quote, value.action, Quote, ",",
            Quote, "args", Quote, ":", "{", Quote, "content", Quote, ":", Quote >>
         \o value.text \o << Quote, "}", "}" >>
    ELSE << "{", Quote, "action", Quote, ":", Quote, value.action, Quote, "}" >>

\* the JSON text of a reply: a serialization, a cut-off object, or prose
TextOf(json) ==
    IF json = Invalid THEN << "{", Quote, "action", Quote, ":", Quote >>
    ELSE IF json = NoJson THEN << "This is not JSON" >>
    ELSE json_dumps(json)

Layouts == {"bare", "json_fence", "fence", "embedded"}

Wrap(layout, text) ==
    CASE layout = "json_fence" -> << Fence, Tag, NL >> \o text \o << NL, Fence >>
      [] layout = "fence"      -> << Fence, NL >> \o text \o << NL, Fence >>
      [] layout = "embedded"   -> << "I will write a file: " >> \o text \o << " done" >>
      [] OTHER                 -> text

\* a reply: its text, and what the text was made from
Content(layout, json) ==
    [layout |-> layout, json |-> json, text |-> Wrap(layout, TextOf(json))]

\* the arguments matter to the registered tools alone
JsonTexts ==
    { Object(a, TRUE) : a \in Actions }
    \cup { Object(a, FALSE) : a \in {"write_file", "read_file"} }
    \cup {Array, Invalid}

Contents == { Content(l, j) : l \in Layouts, j \in JsonTexts }
            \cup { Content("prose", NoJson) }

\* text.strip()
RECURSIVE lstrip(_)
lstrip(text) == IF text # << >> /\ Head(text) = NL THEN lstrip(Tail(text)) ELSE text

RECURSIVE rstrip(_)
rstrip(text) ==
    IF text # << >> /\ text[Len(text)] = NL THEN rstrip(SubSeq(text, 1, Len(text) - 1))
    ELSE text

strip(text) == rstrip(lstrip(text))

\* text.find(sep): the index of the first occurrence, 0 when there is none
\* (indices start at 1)
find(text, sep) ==
    LET at(i) == i + Len(sep) - 1 <= Len(text) /\ SubSeq(text, i, i + Len(sep) - 1) = sep
    IN  IF \E i \in DOMAIN text : at(i)
        THEN CHOOSE i \in DOMAIN text : at(i) /\ \A j \in 1..(i - 1) : ~at(j)
        ELSE 0

rfind_first(text, sep) == find(text, sep)

\* text.rfind(sep): the index of the last occurrence, 0 when there is none
rfind(text, sep) ==
    LET at(i) == i + Len(sep) - 1 <= Len(text) /\ SubSeq(text, i, i + Len(sep) - 1) = sep
    IN  IF \E i \in DOMAIN text : at(i)
        THEN CHOOSE i \in DOMAIN text : at(i) /\ \A j \in (i + 1)..Len(text) : ~at(j)
        ELSE 0

\* sep in text
Contains(sep, text) == find(text, sep) > 0

\* text.split(sep)
RECURSIVE split(_, _)
split(text, sep) ==
    LET i == find(text, sep)
    IN  IF i = 0 THEN << text >>
        ELSE << SubSeq(text, 1, i - 1) >> \o split(SubSeq(text, i + Len(sep), Len(text)), sep)

\* json.loads(text): the value that text serializes, or JSONDecodeError
json_loads(text) ==
    LET values == { v \in JsonValues : json_dumps(v) = strip(text) }
    IN  IF values # {} THEN [raised |-> FALSE, value |-> CHOOSE v \in values : TRUE]
        ELSE [raised |-> TRUE, value |-> NoJson]

\* text.startswith("{")
StartsWithBrace(text) == text # << >> /\ Head(text) = "{"

\* content[start:end] of the last extraction step, empty when the step's
\* condition does not hold
BraceSlice(content) ==
    LET start == find(content, << "{" >>)
        end   == rfind(content, << "}" >>)
    IN  IF start > 0 /\ end > start THEN SubSeq(content, start, end) ELSE << >>

parse_json_action(content) ==
    LET direct == json_loads(strip(content))
        tagged == json_loads(strip(split(split(content, << Fence, Tag >>)[2], << Fence >>)[1]))
        json_str == strip(split(split(content, << Fence >>)[2], << Fence >>)[1])
        fenced == json_loads(json_str)
        slice  == BraceSlice(content)
    IN  IF StartsWithBrace(strip(content)) /\ ~direct.raised THEN direct.value
        ELSE IF Contains(<< Fence, Tag >>, content) /\ ~tagged.raised THEN tagged.value
        ELSE IF Contains(<< Fence >>, content) /\ StartsWithBrace(json_str) /\ ~fenced.raised
        THEN fenced.value
        ELSE IF slice # << >> /\ ~json_loads(slice).raised THEN json_loads(slice).value
        ELSE NoJson

\* `if action_data:` (an empty dict is false; the arrays here are not empty)
Truthy(action_data) == action_data.kind # "none" /\ action_data # EmptyObject

(***************************************************************************)
(* nodes.py: ToolExecutor                                                  *)
(* `collab` is what the collaborator function does when it is called:      *)
(* "ok" (returns its text), "error" (returns a text that starts with       *)
(* "Error:") or "raise" (raises an exception whose message is its text).   *)
(* A tool called without its arguments raises KeyError in the registry's   *)
(* lambda.                                                                 *)
(***************************************************************************)
AVAILABLE_TOOLS == {"write_file", "read_file", "list_dir", "run_command"}

\* the slice taken of an output before it is stored
output_limit == 1000

\* the outcomes of a collaborator in a run of the graph
Collabs == {"ok", "error", "raise"}

\* the same outcomes with a text of more than output_limit characters
LongCollabs == {"ok long", "error long", "raise long"}

Raises(collab) == collab \in {"raise", "raise long"}

\* the text a collaborator returns, or the message of the exception it raises
CollabText(collab) ==
    LET pad == IF collab \in LongCollabs THEN output_limit ELSE 0
    IN  IF collab \in {"error", "error long"}
        THEN Text(<< "Error:", " text" >>, pad)
        ELSE Text(<< "text" >>, pad)

\* str(KeyError(key)) for the first key the registry's lambda reads
KeyErrorText(tool_name) ==
    IF tool_name = "run_command" THEN Text(<< "'command'" >>, 0) ELSE Text(<< "'path'" >>, 0)

\* output.startswith("Error:")
StartsWithError_any_text(output) == TRUE

StartsWithError_no_text(output) == FALSE

StartsWithError(output) == output.parts # << >> /\ Head(output.parts) = "Error:"

\* the except branch: the message is stored whole
ToolExecutor_except_propagates(tool_name, s, e) ==
    [raised |-> TRUE, output |-> e, success |-> FALSE, results |-> s.tool_results]

ToolExecutor_except(tool_name, s, e) ==
    LET error_msg == Format("Tool execution error: ", e)
    IN  [raised |-> FALSE, output |-> error_msg, success |-> FALSE,
         results |-> add_tool_result(s, tool_name, error_msg, FALSE)]

\* the end of the try block: the output is stored sliced, returned whole
ToolExecutor_completed(tool_name, s, output, success) ==
    [raised |-> FALSE, output |-> output, success |-> success,
     results |-> add_tool_result(s, tool_name, Slice(output, output_limit), success)]

ToolExecutor_unknown_not_logged(tool_name, s) ==
    [raised |-> FALSE, output |-> Format("Unknown tool: ", Text(<< tool_name >>, 0)),
     success |-> FALSE, results |-> s.tool_results]

ToolExecutor_unknown(tool_name, s) ==
    ToolExecutor_completed(tool_name, s,
                           Format("Unknown tool: ", Text(<< tool_name >>, 0)), FALSE)

ToolExecutor_execute(tool_name, tool_input, s, collab) ==
    IF tool_name \notin AVAILABLE_TOOLS THEN ToolExecutor_unknown(tool_name, s)
    ELSE IF ~tool_input.args THEN ToolExecutor_except(tool_name, s, KeyErrorText(tool_name))
    ELSE IF Raises(collab) THEN ToolExecutor_except(tool_name, s, CollabText(collab))
    ELSE LET output == CollabText(collab)
         IN  ToolExecutor_completed(tool_name, s, output, ~StartsWithError(output))

(***************************************************************************)
(* nodes.py: the worker nodes                                              *)
(* `fails` and `content` are the behaviour of the model (the attempts that *)
(* raise, the text of the reply), `collab` that of the tool collaborator.  *)
(***************************************************************************)
\* read_file(path), called directly by the researcher and the reviewer
read_file(collab) == [raised |-> Raises(collab), text |-> CollabText(collab)]

planner_except(s, info) ==
    Return([s EXCEPT !.messages = @ \o << Message("AI", "Planning error", Ordinary) >>,
                     !.current_agent = "planner",
                     !.next_step = "supervisor"],
           Caught(info))

planner_node(s, fails, content, collab) ==
    LET r == retry_with_backoff(Failing(fails), max_retries) IN
    IF r.raised THEN planner_except(s, Info(r.calls, "raised", "", "none"))
    ELSE Return([s EXCEPT !.messages = @ \o << Message("AI", "reply", Ordinary) >>,
                          !.plan = "plan",
                          !.memory = add_memory(s, "assistant", "planner"),
                          !.current_agent = "planner",
                          !.next_step = "supervisor"],
                Info(r.calls, "returned", "", "none"))

researcher_except(s, info) ==
    Return([s EXCEPT !.messages = @ \o << Message("AI", "Research error", Ordinary) >>,
                     !.current_agent = "researcher",
                     !.next_step = "supervisor"],
           Caught(info))

researcher_node(s, fails, content, collab) ==
    LET r == retry_with_backoff(Failing(fails), max_retries)
        action_data == parse_json_action(content.text)
        action == action_data.action
        result == read_file(collab)
        response == Message("AI", "reply", Ordinary)
        done(output_messages, tool) ==
            Return([s EXCEPT !.messages = @ \o output_messages,
                             !.memory = add_memory(s, "assistant", "researcher"),
                             !.tool_results = s.tool_results,
                             !.current_agent = "researcher",
                             !.next_step = "supervisor"],
                   Info(r.calls, "returned", action, tool))
    IN  IF r.raised THEN researcher_except(s, Info(r.calls, "raised", "", "none"))
        ELSE IF ~Truthy(action_data) THEN done(<< response >>, "none")
        \* action_data.get on a list: AttributeError
        ELSE IF action_data.kind = "array"
        THEN researcher_except(s, Info(r.calls, "returned", "", "none"))
        ELSE IF action = "analyze_file"
        THEN IF result.raised
             THEN researcher_except(s, Info(r.calls, "returned", action, "direct"))
             ELSE done(<< response, Message("Human", "File Analysis Result", result.text) >>,
                       "direct")
        ELSE IF action = "search_code"
        THEN done(<< response, Message("Human", "Search Result", Ordinary) >>, "inline")
        ELSE done(<< response >>, "none")

coder_except_uncaught(s, info) == Raise(s, info)

coder_except_fatal(s, info) ==
    Return([s EXCEPT !.messages = @ \o << Message("AI", "Implementation error", Ordinary) >>,
                     !.current_agent = "coder",
                     !.next_step = "supervisor",
                     !.error_context = [agent |-> "coder", fatal |-> TRUE]],
           Caught(info))

coder_except(s, info) ==
    Return([s EXCEPT !.messages = @ \o << Message("AI", "Implementation error", Ordinary) >>,
                     !.current_agent = "coder",
                     !.next_step = "supervisor",
                     !.error_context = [agent |-> "coder", fatal |-> FALSE]],
           Caught(info))

coder_node_runs_any_action(s, fails, content, collab) ==
    LET r == retry_with_backoff(Failing(fails), max_retries)
        action_data == parse_json_action(content.text)
        action == action_data.action
        executed == ToolExecutor_execute(action, action_data, s, collab)
        response == Message("AI", "reply", Ordinary)
        done(output_messages, tool_results, tool) ==
            Return([s EXCEPT !.messages = @ \o output_messages,
                             !.memory = add_memory(s, "assistant", "coder"),
                             !.tool_results = tool_results,
                             !.current_agent = "coder",
                             !.next_step = "supervisor"],
                   Info(r.calls, "returned", action, tool))
    IN  IF r.raised THEN coder_except(s, Info(r.calls, "raised", "", "none"))
        ELSE IF ~Truthy(action_data) THEN done(<< response >>, s.tool_results, "none")
        ELSE IF action_data.kind = "array"
        THEN coder_except(s, Info(r.calls, "returned", "", "none"))
        ELSE IF action # ""
        THEN done(<< response, Message("Human", "Tool Result", executed.output) >>,
                  executed.results, "gateway")
        ELSE done(<< response >>, s.tool_results, "none")

coder_node_unguarded(s, fails, content, collab) ==
    LET r == retry_with_backoff(Failing(fails), max_retries)
        action_data == parse_json_action(content.text)
        action == action_data.action
        executed == ToolExecutor_execute(action, action_data, s, collab)
        response == Message("AI", "reply", Ordinary)
        done(output_messages, tool_results, tool) ==
            Return([s EXCEPT !.messages = @ \o output_messages,
                             !.memory = add_memory(s, "assistant", "coder"),
                             !.tool_results = tool_results,
                             !.current_agent = "coder",
                             !.next_step = "supervisor"],
                   Info(r.calls, "returned", action, tool))
    IN  IF r.raised THEN coder_except(s, Info(r.calls, "raised", "", "none"))
        ELSE IF action_data.kind \in {"array", "none"}
        THEN coder_except(s, Info(r.calls, "returned", "", "none"))
        ELSE IF action = "finish" THEN done(<< response >>, s.tool_results, "none")
        ELSE IF action \in AVAILABLE_TOOLS
        THEN done(<< response, Message("Human", "Tool Result", executed.output) >>,
                  executed.results, "gateway")
        ELSE done(<< response >>, s.tool_results, "none")

coder_node(s, fails, content, collab) ==
    LET r == retry_with_backoff(Failing(fails), max_retries)
        action_data == parse_json_action(content.text)
        action == action_data.action
        executed == ToolExecutor_execute(action, action_data, s, collab)
        response == Message("AI", "reply", Ordinary)
        done(output_messages, tool_results, tool) ==
            Return([s EXCEPT !.messages = @ \o output_messages,
                             !.memory = add_memory(s, "assistant", "coder"),
                             !.tool_results = tool_results,
                             !.current_agent = "coder",
                             !.next_step = "supervisor"],
                   Info(r.calls, "returned", action, tool))
    IN  IF r.raised THEN coder_except(s, Info(r.calls, "raised", "", "none"))
        ELSE IF ~Truthy(action_data) THEN done(<< response >>, s.tool_results, "none")
        \* action_data.get on a list: AttributeError
        ELSE IF action_data.kind = "array"
        THEN coder_except(s, Info(r.calls, "returned", "", "none"))
        ELSE IF action = "finish" THEN done(<< response >>, s.tool_results, "none")
        ELSE IF action \in AVAILABLE_TOOLS
        THEN done(<< response, Message("Human", "Tool Result", executed.output) >>,
                  executed.results, "gateway")
        ELSE done(<< response >>, s.tool_results, "none")

reviewer_except(s, info) ==
    Return([s EXCEPT !.messages = @ \o << Message("AI", "Review error", Ordinary) >>,
                     !.current_agent = "reviewer",
                     !.next_step = "supervisor"],
           Caught(info))

reviewer_node(s, fails, content, collab) ==
    LET r == retry_with_backoff(Failing(fails), max_retries)
        action_data == parse_json_action(content.text)
        action == action_data.action
        file_content == read_file(collab)
        response == Message("AI", "reply", Ordinary)
        done(output_messages, reflection, tool) ==
            Return([s EXCEPT !.messages = @ \o output_messages,
                             !.memory = add_memory(s, "assistant", "reviewer"),
                             !.reflection = IF reflection # "" THEN reflection
                                            ELSE s.reflection,
                             !.current_agent = "reviewer",
                             !.next_step = "supervisor"],
                   Info(r.calls, "returned", action, tool))
    IN  IF r.raised THEN reviewer_except(s, Info(r.calls, "raised", "", "none"))
        ELSE IF ~Truthy(action_data) THEN done(<< response >>, "", "none")
        \* action_data.get on a list: AttributeError
        ELSE IF action_data.kind = "array"
        THEN reviewer_except(s, Info(r.calls, "returned", "", "none"))
        ELSE IF action = "finish" THEN done(<< response >>, "Review Verdict", "none")
        ELSE IF action = "review_file"
        THEN IF file_content.raised
             THEN reviewer_except(s, Info(r.calls, "returned", action, "direct"))
             ELSE done(<< response, Message("Human", "File for review", file_content.text) >>,
                       "", "direct")
        ELSE done(<< response >>, "", "none")

(***************************************************************************)
(* One run of the compiled graph (graph.py: build_graph, run_agent).       *)
(* A step runs the node at `node` on the state, merges its update and      *)
(* follows the outgoing edge; an exception that a node lets escape ends    *)
(* the run at RAISED.  `last` records what the last node did.              *)
(***************************************************************************)
NoStep == [node |-> "none", llm |-> "none", action |-> "", tool |-> "none",
           exc |-> FALSE, raised |-> FALSE]

Step(n, out) ==
    [node |-> n, llm |-> out.info.llm, action |-> out.info.action,
     tool |-> out.info.tool, exc |-> out.info.exc, raised |-> out.raised]

\* a call made on its own: the function, the model response it was given, the
\* llm.invoke calls it made, its boolean result or the state and route it gives
Call(fn, response, info, result, route, out) ==
    [fn |-> fn, response |-> response, calls |-> info.calls, llm |-> info.llm,
     result |-> result, route |-> route, out |-> out]

NoCall == Call("none", << >>, Info(0, "none", "", "none"), FALSE, "none",
               create_initial_state(0))

\* the behaviours of the model seen by retry_with_backoff: every attempt raises,
\* or some attempt within max_retries returns
Fails == 0..max_retries

Prose == Content("prose", NoJson)

\* the inputs of a supervisor turn of a run: the attempts that raise and the
\* response; the response is read only when an attempt returns, whichever attempt
\* it is, and the responses of one word give every decision (SpecNode takes every
\* response)
SupervisorInputs ==
    { [fails |-> f, response |-> << >>] : f \in Fails }
    \cup { [fails |-> 0, response |-> r] : r \in { q \in Responses : Len(q) <= 1 } }

\* the inputs of a worker turn: the attempts that raise, the reply, and what the
\* collaborator does; the collaborator is called only for an action that reads or
\* writes a file
WorkerInputs ==
    { [fails |-> f, content |-> Prose, collab |-> "ok"] : f \in Fails }
    \cup { [fails |-> 0, content |-> c, collab |-> "ok"] : c \in Contents }
    \cup { [fails |-> 0, content |-> Content("bare", Object(a, TRUE)),
            collab |-> k] :
               a \in {"write_file", "read_file", "analyze_file", "review_file"},
               k \in {"error", "raise"} }

\* The end-to-end scenario of a stubbed model, followed by `script`: the
\* supervisor answers "coder", the coder emits a write_file action that the
\* collaborator carries out, the supervisor answers "coder" again, the coder
\* emits a finish action, the supervisor answers "finish".  A turn that departs
\* from it (or a stub that raises) puts the run off the script.
Answers(in, word) == in.fails = 0 /\ Lower(in.response) = << word >>

Emits(in, action) == in.fails = 0 /\ in.content.json = Object(action, TRUE)

ScriptNext(at, n, in) ==
    CASE at = "start" /\ n = "supervisor" /\ Answers(in, "coder") -> "routed"
      [] at = "routed" /\ n = "coder" /\ Emits(in, "write_file") /\ in.collab = "ok"
             -> "written"
      [] at = "written" /\ n = "supervisor" /\ Answers(in, "coder") -> "routed again"
      [] at = "routed again" /\ n = "coder" /\ Emits(in, "finish") -> "finished"
      [] at = "finished" /\ n = "supervisor" /\ Answers(in, "finish") -> "done"
      [] OTHER -> "off"

Init ==
    /\ \E m \in 1..MaxIter : state = create_initial_state(m)
    /\ node = "supervisor"
    /\ last = NoStep
    /\ call = NoCall
    /\ script = "start"
    /\ breaker = CircuitBreaker
    /\ now = 0
    /\ inflight = NoneInFlight
    /\ limiter = RateLimiter
    /\ hist = NoHist

Follow(n, in, out, to) ==
    /\ last' = Step(n, out)
    /\ script' = ScriptNext(script, n, in)
    /\ IF out.raised
       THEN node' = RAISED /\ state' = state
       ELSE node' = to /\ state' = out.state
    /\ hist' = AfterTurn(hist, n, out)
    /\ UNCHANGED <<call, breaker, now, inflight, limiter>>

SupervisorTurn ==
    /\ node = "supervisor"
    /\ \E in \in SupervisorInputs :
          LET out == supervisor_node(state, in.fails, in.response)
          IN  Follow("supervisor", in, out, route_supervisor(out.state))

PlannerTurn ==
    /\ node = "planner"
    /\ \E in \in WorkerInputs :
          Follow("planner", in, planner_node(state, in.fails, in.content, in.collab),
                 edge("planner"))

ResearcherTurn ==
    /\ node = "researcher"
    /\ \E in \in WorkerInputs :
          Follow("researcher", in, researcher_node(state, in.fails, in.content, in.collab),
                 edge("researcher"))

CoderTurn ==
    /\ node = "coder"
    /\ \E in \in WorkerInputs :
          Follow("coder", in, coder_node(state, in.fails, in.content, in.collab),
                 edge("coder"))

ReviewerTurn ==
    /\ node = "reviewer"
    /\ \E in \in WorkerInputs :
          Follow("reviewer", in, reviewer_node(state, in.fails, in.content, in.collab),
                 edge("reviewer"))

Next ==
    \/ SupervisorTurn
    \/ PlannerTurn
    \/ ResearcherTurn
    \/ CoderTurn
    \/ ReviewerTurn

Spec == Init /\ [][Next]_vars

(***************************************************************************)
(* A single call on a state the caller supplies (as the tests of           *)
(* tests/test_agent.py do): should_continue, route_supervisor, and one     *)
(* supervisor turn (supervisor_node, merge, route_supervisor).             *)
(***************************************************************************)
ErrorContexts ==
    { None, [agent |-> "coder"], [agent |-> "coder", fatal |-> FALSE],
      [agent |-> "coder", fatal |-> TRUE] }

CallerStates ==
    { [create_initial_state(m) EXCEPT !.iteration_count = i, !.next_step = n,
                                      !.error_context = e] :
          m \in 0..ProbeIter, i \in 0..ProbeIter,
          n \in {"supervisor", "reviewer", "FINISH", "unknown"}, e \in ErrorContexts }

InitNode ==
    /\ state \in CallerStates
    /\ node = "caller"
    /\ last = NoStep
    /\ call = NoCall
    /\ script = "off"
    /\ breaker = CircuitBreaker
    /\ now = 0
    /\ inflight = NoneInFlight
    /\ limiter = RateLimiter
    /\ hist = NoHist

CallShouldContinue ==
    /\ call = NoCall
    /\ call' = Call("should_continue", << >>, Info(0, "none", "", "none"),
                    should_continue(state), "none", state)
    /\ UNCHANGED <<state, node, last, script, breaker, now, inflight, limiter, hist>>

CallRouteSupervisor ==
    /\ call = NoCall
    /\ call' = Call("route_supervisor", << >>, Info(0, "none", "", "none"),
                    should_continue(state), route_supervisor(state), state)
    /\ UNCHANGED <<state, node, last, script, breaker, now, inflight, limiter, hist>>

CallSupervisorNode ==
    /\ call = NoCall
    /\ \E fails \in Fails, response \in Responses :
          LET out == supervisor_node(state, fails, response)
          IN  call' = Call("supervisor_node", response, out.info,
                           should_continue(out.state), route_supervisor(out.state),
                           out.state)
    /\ UNCHANGED <<state, node, last, script, breaker, now, inflight, limiter, hist>>

NextNode ==
    \/ CallShouldContinue
    \/ CallRouteSupervisor
    \/ CallSupervisorNode

SpecNode == InitNode /\ [][NextNode]_vars

(***************************************************************************)
(* One call of ToolExecutor.execute, of parse_json_action or of            *)
(* retry_with_backoff by a caller that chooses the arguments.              *)
(***************************************************************************)
ToolNames == AVAILABLE_TOOLS \cup {"unknown_tool", "deploy", ""}

ToolInputs == { [args |-> TRUE], [args |-> FALSE] }

\* logs that earlier calls of ToolExecutor.execute have left in the state
ToolLogs ==
    LET s0  == create_initial_state(MaxIter)
        one == ToolExecutor_execute("write_file", [args |-> TRUE], s0, "ok").results
        two == ToolExecutor_execute("read_file", [args |-> TRUE],
                                    [s0 EXCEPT !.tool_results = one], "error").results
    IN  { << >>, one, two }

InitUnit ==
    /\ state \in { [create_initial_state(MaxIter) EXCEPT !.tool_results = log] :
                      log \in ToolLogs }
    /\ node = "caller"
    /\ last = NoStep
    /\ call = NoCall
    /\ script = "off"
    /\ breaker = CircuitBreaker
    /\ now = 0
    /\ inflight = NoneInFlight
    /\ limiter = RateLimiter
    /\ hist = NoHist

CallToolExecutor ==
    /\ call = NoCall
    /\ \E tool_name \in ToolNames, tool_input \in ToolInputs,
          collab \in Collabs \cup LongCollabs :
          LET executed == ToolExecutor_execute(tool_name, tool_input, state, collab)
          IN  call' = [fn |-> "ToolExecutor.execute", tool_name |-> tool_name,
                       tool_input |-> tool_input, collab |-> collab,
                       raised |-> executed.raised, output |-> executed.output,
                       success |-> executed.success, results |-> executed.results]
    /\ UNCHANGED <<state, node, last, script, breaker, now, inflight, limiter, hist>>

\* the replies handed to parse_json_action
ParserContents ==
    { Content(l, j) : l \in Layouts, j \in JsonValues \cup {Invalid} }
    \cup { Prose }

CallParseJsonAction ==
    /\ call = NoCall
    /\ \E content \in ParserContents :
          call' = [fn |-> "parse_json_action", content |-> content,
                   result |-> parse_json_action(content.text)]
    /\ UNCHANGED <<state, node, last, script, breaker, now, inflight, limiter, hist>>

\* the functions handed to retry_with_backoff: what each call does
Funcs == [1..ProbeRetries -> {"return", "raise"}]

CallRetryWithBackoff ==
    /\ call = NoCall
    /\ \E func \in Funcs, retries \in 0..ProbeRetries :
          LET r == retry_with_backoff(func, retries)
          IN  call' = [fn |-> "retry_with_backoff", func |-> func, max_retries |-> retries,
                       raised |-> r.raised, calls |-> r.calls, of |-> r.of]
    /\ UNCHANGED <<state, node, last, script, breaker, now, inflight, limiter, hist>>

\* a worker node called on a state that may carry an earlier error_context
WorkerNode(name, s, fails, content, collab) ==
    CASE name = "planner"    -> planner_node(s, fails, content, collab)
      [] name = "researcher" -> researcher_node(s, fails, content, collab)
      [] name = "coder"      -> coder_node(s, fails, content, collab)
      [] name = "reviewer"   -> reviewer_node(s, fails, content, collab)

CallWorkerNode ==
    /\ call = NoCall
    /\ \E name \in Workers, content \in Contents, fails \in {0, max_retries},
          e \in {None, [agent |-> "supervisor", fatal |-> FALSE]} :
          LET s   == [state EXCEPT !.error_context = e]
              out == WorkerNode(name, s, fails, content, "ok")
          IN  call' = [fn |-> "worker_node", name |-> name, content |-> content,
                       parsed |-> parse_json_action(content.text), before |-> s,
                       out |-> out.state, raised |-> out.raised, llm |-> out.info.llm,
                       tool |-> out.info.tool, exc |-> out.info.exc, to |-> edge(name)]
    /\ UNCHANGED <<state, node, last, script, breaker, now, inflight, limiter, hist>>

NextUnit ==
    \/ CallToolExecutor
    \/ CallParseJsonAction
    \/ CallRetryWithBackoff
    \/ CallWorkerNode

SpecUnit == InitUnit /\ [][NextUnit]_vars

(***************************************************************************)
(* The process that holds the "llm" breaker: calls are made through the    *)
(* breaker, the clock advances, and nodes of the graph run.                *)
(***************************************************************************)
\* the clock is read up to MaxNow, failures are counted up to MaxFailures
MaxNow == 60

MaxFailures == 6

InitBreaker ==
    /\ state = create_initial_state(MaxIter)
    /\ node = "caller"
    /\ last = NoStep
    /\ call = NoCall
    /\ script = "off"
    /\ breaker = CircuitBreaker
    /\ now = 0
    /\ inflight = NoneInFlight
    /\ limiter = RateLimiter
    /\ hist = NoHist

Tick ==
    /\ now + Seconds(call_timeout) <= Seconds(MaxNow)
    /\ now' = now + Seconds(call_timeout)
    /\ UNCHANGED <<state, node, last, call, script, breaker, inflight, limiter, hist>>

\* what the wrapped function can do
Outcomes == IF hist.recovered THEN {"return"} ELSE {"return", "raise", "timeout"}

Recover ==
    /\ ~hist.recovered
    /\ hist' = [hist EXCEPT !.recovered = TRUE]
    /\ UNCHANGED <<state, node, last, call, script, breaker, now, inflight, limiter>>

BreakerCall ==
    \E outcome \in Outcomes :
        LET r == CircuitBreaker_call(breaker, now, outcome)
        IN  /\ r.time <= Seconds(MaxNow)
            /\ r.breaker.failure_count <= MaxFailures
            /\ breaker' = r.breaker
            /\ now' = r.time
            /\ call' = [fn |-> "CircuitBreaker.call", before |-> breaker, at |-> now,
                         outcome |-> outcome,
                         admitted |-> r.checked,
                         invoked |-> r.invoked, raised |-> r.raised,
                         returned |-> r.returned]
            /\ hist' = AfterBreakerCall(hist, breaker, now, r)
            /\ UNCHANGED <<state, node, last, script, inflight, limiter>>

\* a node of the graph runs while the breaker is in whatever state it is
NodeRuns(name, out) ==
    /\ call' = [fn |-> name, calls |-> out.info.calls, llm |-> out.info.llm,
                 raised |-> out.raised, at |-> now]
    /\ UNCHANGED <<state, node, last, script, breaker, now, inflight, limiter, hist>>

SupervisorRuns ==
    \E fails \in Fails :
        NodeRuns("supervisor_node", supervisor_node(state, fails, << "Coder" >>))

WorkerRuns ==
    \E fails \in Fails :
        \/ NodeRuns("planner_node", planner_node(state, fails, Prose, "ok"))
        \/ NodeRuns("researcher_node", researcher_node(state, fails, Prose, "ok"))
        \/ NodeRuns("coder_node", coder_node(state, fails, Prose, "ok"))
        \/ NodeRuns("reviewer_node", reviewer_node(state, fails, Prose, "ok"))

NextBreaker ==
    \/ Tick
    \/ Recover
    \/ BreakerCall
    \/ SupervisorRuns
    \/ WorkerRuns



SpecBreaker == InitBreaker /\ [][NextBreaker]_vars

\* time advances and calls keep being attempted
FairBreaker == SpecBreaker /\ WF_vars(Tick) /\ WF_vars(BreakerCall)

(***************************************************************************)
(* Several coroutines calling one breaker.  A coroutine gives up control   *)
(* only at the await of the wrapped function: the check on entry, and the  *)
(* recording of the result under the lock, each run in one piece.          *)
(***************************************************************************)

\* call up to the await of the wrapped function
CircuitBreaker_admit(b, time) ==
    LET checked == check_state_transition(b, time)
    IN  [breaker |-> checked, admitted |-> checked.state # "open"]

\* call from the end of the await: the result is recorded at `time`
CircuitBreaker_complete(b, time, outcome) ==
    IF outcome = "return" THEN record_success(b) ELSE record_failure(b, time)

Callers == 1..MaxCallers

\* the clock moves on by half of call_timeout, and never past the moment
\* asyncio.wait_for cancels a call in flight
Elapse ==
    LET later == now + (Seconds(call_timeout) \div 2)
    IN  /\ later <= Seconds(MaxNow)
        /\ \A c \in Callers :
              inflight[c].awaiting => later - inflight[c].started <= Seconds(call_timeout)
        /\ now' = later
        /\ UNCHANGED <<state, node, last, call, script, breaker, inflight, limiter, hist>>

Admit_under_lock(c) ==
    LET r == CircuitBreaker_admit(breaker, now)
    IN  /\ ~inflight[c].awaiting
        /\ \A d \in Callers : ~inflight[d].awaiting
        /\ breaker' = r.breaker
        /\ inflight' = IF r.admitted THEN [inflight EXCEPT ![c] = Awaiting(now)] ELSE inflight
        /\ call' = [fn |-> "CircuitBreaker.call", step |-> "admit", caller |-> c, at |-> now,
                     before |-> breaker, outcome |-> "none", started |-> now,
                     raised |-> IF r.admitted THEN "none" ELSE "CircuitOpenError"]
        /\ UNCHANGED <<state, node, last, script, now, limiter, hist>>

\* the lock is not taken on the way in, and not held across the await
Admit(c) ==
    LET r == CircuitBreaker_admit(breaker, now)
    IN  /\ ~inflight[c].awaiting
        /\ breaker' = r.breaker
        /\ inflight' = IF r.admitted THEN [inflight EXCEPT ![c] = Awaiting(now)] ELSE inflight
        /\ call' = [fn |-> "CircuitBreaker.call", step |-> "admit", caller |-> c, at |-> now,
                     before |-> breaker, outcome |-> "none", started |-> now,
                     raised |-> IF r.admitted THEN "none" ELSE "CircuitOpenError"]
        /\ UNCHANGED <<state, node, last, script, now, limiter, hist>>

Complete(c, outcome) ==
    LET after == CircuitBreaker_complete(breaker, now, outcome)
        taken == now - inflight[c].started
    IN  /\ inflight[c].awaiting
        /\ IF outcome = "timeout" THEN taken >= Seconds(call_timeout)
                                  ELSE taken <= Seconds(call_timeout)
        /\ after.failure_count <= MaxFailures
        /\ breaker' = after
        /\ inflight' = [inflight EXCEPT ![c] = Idle]
        /\ call' = [fn |-> "CircuitBreaker.call", step |-> "complete", caller |-> c, at |-> now,
                     before |-> breaker, outcome |-> outcome, started |-> inflight[c].started,
                     raised |-> IF outcome = "return" THEN "none"
                                ELSE IF outcome = "timeout" THEN "TimeoutError"
                                ELSE "Exception"]
        /\ hist' = AfterRecord(hist, breaker, after, now)
        /\ UNCHANGED <<state, node, last, script, now, limiter>>

NextConcurrent ==
    \/ Elapse
    \/ \E c \in Callers : Admit(c)
    \/ \E c \in Callers : \E outcome \in {"return", "raise", "timeout"} : Complete(c, outcome)

SpecConcurrent == InitBreaker /\ [][NextConcurrent]_vars

(***************************************************************************)
(* Requests of several clients checked by one RateLimiter.  The clock is   *)
(* followed tick by tick for MaxWait seconds from the start, and for a     *)
(* second after each of two idle periods long enough for buckets to be     *)
(* cleaned up.                                                             *)
(***************************************************************************)
Wait ==
    /\ now % Seconds(inactive_threshold) <
         (IF now < Seconds(inactive_threshold) THEN Seconds(MaxWait) ELSE Seconds(1))
    /\ now' = now + 1
    /\ UNCHANGED <<state, node, last, call, script, breaker, inflight, limiter, hist>>

Sleep ==
    /\ now <= Seconds(inactive_threshold) + Seconds(MaxWait)
    /\ now' = now + Seconds(inactive_threshold)
    /\ UNCHANGED <<state, node, last, call, script, breaker, inflight, limiter, hist>>

\* the watched client asks at any tick, the others on the second, at the
\* start of a period and a second into it
Request(client_id) ==
    LET r == is_allowed(limiter, client_id, now)
    IN  /\ client_id # Watched =>
              /\ now % Seconds(1) = 0
              /\ now % Seconds(inactive_threshold) <= Seconds(1)
        /\ limiter' = r.limiter
        /\ call' = [fn |-> "is_allowed", client |-> client_id, at |-> now,
                     before |-> limiter.buckets[client_id],
                     last_cleanup |-> limiter.last_cleanup,
                     allowed |-> r.allowed, remaining |-> r.remaining,
                     created |-> r.created, swept |-> r.swept]
        /\ hist' = [hist EXCEPT !.burst = AfterRequest(@, now, r)]
        /\ UNCHANGED <<state, node, last, script, breaker, now, inflight>>

NextLimiter ==
    \/ Wait
    \/ Sleep
    \/ \E client_id \in Clients : Request(client_id)

SpecLimiter == InitBreaker /\ [][NextLimiter]_vars

(***************************************************************************)
(* One client of a rate limiter constructed with any of several            *)
(* configurations.                                                         *)
(***************************************************************************)
Configs ==
    { RateLimiterOf(per_minute, burst) :
         per_minute \in 1..MaxRate \cup {requests_per_minute},
         burst \in 1..MaxBurst \cup {burst_size} }

InitConfigs ==
    /\ state = create_initial_state(MaxIter)
    /\ node = "caller"
    /\ last = NoStep
    /\ call = NoCall
    /\ script = "off"
    /\ breaker = CircuitBreaker
    /\ now = 0
    /\ inflight = NoneInFlight
    /\ limiter \in Configs
    /\ hist = NoHist

Admission ==
    LET r == is_allowed(limiter, Watched, now)
    IN  /\ limiter' = r.limiter
        /\ call' = [fn |-> "is_allowed", client |-> Watched, at |-> now,
                     before |-> limiter.buckets[Watched],
                     last_cleanup |-> limiter.last_cleanup,
                     allowed |-> r.allowed, remaining |-> r.remaining,
                     created |-> r.created, swept |-> r.swept]
        /\ hist' = [hist EXCEPT !.window = AfterAdmission(@, now, r)]
        /\ UNCHANGED <<state, node, last, script, breaker, now, inflight>>

NextConfigs ==
    \/ Wait
    \/ Sleep
    \/ Admission

SpecConfigs == InitConfigs /\ [][NextConfigs]_vars

(***************************************************************************)
(* Several runs in one process (graph.py: run_agent; nodes.py:             *)
(* retry_with_backoff).  The node functions are plain functions: a node    *)
(* runs on one thread from its call to its return, whether that is the     *)
(* thread of the event loop or a worker of an executor.  `inflight` holds  *)
(* for each run where it is: between attempts of a model call ("sleep",    *)
(* inside time.sleep until `wakes`) or not ("ready").                      *)
(***************************************************************************)
base_delay == 1

max_delay == 30

\* min(base_delay * (2 ** attempt), max_delay), in seconds
delay(attempt) == Min(base_delay * (2 ^ attempt), max_delay)

\* more runs than threads
Runs == 1..(MaxThreads + 1)

Ready == [at |-> "ready", attempt |-> 0, wakes |-> 0]

Sleeping(attempt, wakes) == [at |-> "sleep", attempt |-> attempt, wakes |-> wakes]

\* time.sleep(delay) keeps the thread that called it
ThreadsHeld(runs) == Cardinality({r \in Runs : runs[r].at = "sleep"})

\* one attempt of func() at `attempt` (counted from 0) by a run, at `time`
attempt_once(attempt, outcome, time) ==
    IF outcome = "return" THEN Ready
    ELSE IF attempt = max_retries - 1 THEN Ready
    ELSE Sleeping(attempt + 1, time + Seconds(delay(attempt)))

InitRuns ==
    /\ state = create_initial_state(MaxIter)
    /\ node = "caller"
    /\ last = NoStep
    /\ call = NoCall
    /\ script = "off"
    /\ breaker = CircuitBreaker
    /\ now = 0
    /\ inflight = [r \in Runs |-> Ready]
    /\ limiter = RateLimiter
    /\ hist = NoHist

Pass ==
    /\ now + Seconds(base_delay) <= Seconds(MaxWait) + Seconds(max_delay)
    /\ now' = now + Seconds(base_delay)
    /\ UNCHANGED <<state, node, last, call, script, breaker, inflight, limiter, hist>>

\* a run that is not waiting takes a step of a node, on a thread that is free
RunStep(r) ==
    /\ inflight[r].at = "ready"
    /\ ThreadsHeld(inflight) < MaxThreads
    /\ \E outcome \in {"return", "raise"} :
          /\ inflight' = [inflight EXCEPT ![r] = attempt_once(0, outcome, now)]
          /\ call' = [fn |-> "retry_with_backoff", run |-> r, attempt |-> 0,
                       outcome |-> outcome, at |-> now]
    /\ UNCHANGED <<state, node, last, script, breaker, now, limiter, hist>>

\* time.sleep returns and the run makes its next attempt
Resume(r) ==
    /\ inflight[r].at = "sleep"
    /\ now >= inflight[r].wakes
    /\ \E outcome \in {"return", "raise"} :
          /\ inflight' = [inflight EXCEPT ![r] =
                             attempt_once(inflight[r].attempt, outcome, now)]
          /\ call' = [fn |-> "retry_with_backoff", run |-> r,
                       attempt |-> inflight[r].attempt, outcome |-> outcome, at |-> now]
    /\ UNCHANGED <<state, node, last, script, breaker, now, limiter, hist>>

NextRuns ==
    \/ Pass
    \/ \E r \in Runs : RunStep(r)
    \/ \E r \in Runs : Resume(r)

SpecRuns == InitRuns /\ [][NextRuns]_vars

\* the graph runtime runs the next node as long as there is one
FairSpec == Spec /\ WF_vars(Next)

(***************************************************************************)
(* Properties                                                              *)
(***************************************************************************)
Fatal(error_context) ==
    /\ error_context # None
    /\ "fatal" \in DOMAIN error_context
    /\ error_context.fatal

Continues(s) ==
    /\ s.next_step # "FINISH"
    /\ s.iteration_count < s.max_iterations
    /\ ~Fatal(s.error_context)

LastOf(seq) == seq[Len(seq)]

C2_ShouldContinue ==
    /\ call.fn = "should_continue" => (call.result <=> Continues(state))
    /\ call.fn = "supervisor_node" /\ ~Continues(call.out) => call.route = END

\* should_continue called at the iteration limit on a state that is otherwise live
C2_Witness ==
    /\ call.fn = "should_continue"
    /\ state.iteration_count >= state.max_iterations
    /\ state.next_step # "FINISH"
    /\ ~Fatal(state.error_context)
    /\ ~call.result

\* C3: supervisor_node on a state with iteration_count >= max_iterations sets
\* next_step to FINISH and makes no call of the model.
C3_LimitForcesFinish ==
    call.fn = "supervisor_node" /\ state.iteration_count >= state.max_iterations
        => call.out.next_step = "FINISH" /\ call.calls = 0 /\ call.llm = "none"

\* supervisor_node called exactly at the limit, with a model that would say coder
C3_Witness ==
    /\ call.fn = "supervisor_node"
    /\ state.iteration_count = state.max_iterations
    /\ state.max_iterations > 0
    /\ call.response = << "Coder" >>
    /\ call.out.next_step = "FINISH"

\* C4: when the supervisor's model call raises after its retries, the turn sets
\* next_step = FINISH and error_context with fatal = false, adds one to
\* iteration_count, and the run ends at that turn.
C4_SupervisorFailureEndsRun ==
    [][ node = "supervisor" /\ last'.node = "supervisor" /\ last'.llm = "raised"
          => /\ state'.next_step = "FINISH"
             /\ state'.error_context # None
             /\ state'.error_context.fatal = FALSE
             /\ state'.iteration_count = state.iteration_count + 1
             /\ node' = END ]_vars

\* the supervisor's model call failed on a later turn, below the iteration limit
C4_Witness ==
    /\ last.node = "supervisor"
    /\ last.llm = "raised"
    /\ node = END
    /\ state.iteration_count = 2
    /\ state.iteration_count < state.max_iterations

\* C5: an exception raised inside a worker node does not escape; the node appends
\* an error message, sets error_context with fatal = false and returns to the
\* supervisor.
C5_WorkerExceptionRecorded ==
    last.node \in Workers /\ last.exc
        => /\ ~last.raised
           /\ LastOf(state.messages).type = "AI"
           /\ LastOf(state.messages).kind \in
                  {"Planning error", "Research error", "Implementation error", "Review error"}
           /\ state.error_context # None
           /\ state.error_context.fatal = FALSE
           /\ node = "supervisor"

FirstInFixedOrder(decision) ==
    LET named == { j \in DOMAIN agents : In(agents[j], decision) }
    IN  IF named = {} THEN "coder"
        ELSE agents[CHOOSE j \in named : \A k \in named : j <= k]

\* C6: on a lower-cased response without "finish" the decision is the first of
\* planner, researcher, coder, reviewer (in that order) that occurs in it, and
\* coder when none does.
C6_FirstRoleInFixedOrder ==
    call.fn = "supervisor_node" /\ call.llm = "returned"
      /\ ~In("finish", Lower(call.response))
        => call.out.next_step = FirstInFixedOrder(Lower(call.response))

\* a response naming reviewer before planner is routed to planner
C6_Witness ==
    /\ call.fn = "supervisor_node"
    /\ call.llm = "returned"
    /\ call.response = << "reviewer", "planner" >>
    /\ call.out.next_step = "planner"

\* C7: if "finish" occurs anywhere in the lower-cased response the decision is
\* FINISH, whatever roles the response names.
C7_FinishOverrides ==
    call.fn = "supervisor_node" /\ call.llm = "returned"
      /\ In("finish", Lower(call.response))
        => call.out.next_step = "FINISH"

\* a response that names a role and holds "finish" inside a longer word
C7_Witness ==
    /\ call.fn = "supervisor_node"
    /\ call.llm = "returned"
    /\ call.response = << "planner", "unfinished" >>
    /\ call.out.next_step = "FINISH"

\* C8: after every worker turn, failed or not, the next node is the supervisor.
C8_WorkerReturnsToSupervisor ==
    [][ (node \in Workers) => (node' = "supervisor") ]_vars

\* a worker turn that failed, followed by the supervisor
C8_Witness ==
    /\ last.node \in Workers
    /\ last.exc
    /\ node = "supervisor"

\* C9: over every node step iteration_count does not decrease, tool_results,
\* memory and messages grow only at the end, and next_step is one of the six steps.
C9_AppendOnly ==
    [][ /\ state'.iteration_count >= state.iteration_count
        /\ IsPrefix(state.tool_results, state'.tool_results)
        /\ IsPrefix(state.memory, state'.memory)
        /\ IsPrefix(state.messages, state'.messages)
        /\ state.next_step \in Steps
        /\ state'.next_step \in Steps ]_vars

\* a second tool result was appended after the first
C9_Witness ==
    /\ Len(state.tool_results) >= 2
    /\ Len(state.memory) >= 3
    /\ last.node = "coder"

\* C10: a tool action that a worker performs goes through ToolExecutor.execute:
\* one entry for it is the last of tool_results and the message carrying its
\* output follows the model's reply.
C10_ToolActionThroughGateway ==
    last.node \in Workers /\ last.tool # "none" /\ ~last.exc
        => /\ last.tool = "gateway"
           /\ Len(state.tool_results) >= 1
           /\ LastOf(state.tool_results).tool_name = last.action
           /\ Len(state.messages) >= 2
           /\ LastOf(state.messages).type = "Human"
           /\ state.messages[Len(state.messages) - 1].kind = "reply"

\* C11: a worker whose parsed action is finish runs no tool and appends no
\* tool_results entry, and the next node is the supervisor, not the end of the run.
C11_FinishActionReturnsToSupervisor ==
    [][ (node \in Workers) /\ last'.node = node /\ last'.action = "finish"
          => /\ last'.tool = "none"
             /\ state'.tool_results = state.tool_results
             /\ node' = "supervisor"
             /\ state'.next_step = "supervisor" ]_vars

\* the coder signalled finish after an earlier tool result, and the supervisor is next
C11_Witness ==
    /\ last.node = "coder"
    /\ last.action = "finish"
    /\ Len(state.tool_results) = 1
    /\ node = "supervisor"

\* C12: the run of the end-to-end scenario ends with exactly one entry in
\* tool_results, a successful write_file, and next_step = FINISH.
C12_EndToEnd ==
    script = "done"
        => /\ node = END
           /\ state.next_step = "FINISH"
           /\ Len(state.tool_results) = 1
           /\ state.tool_results[1].tool_name = "write_file"
           /\ state.tool_results[1].success

\* the scenario ran to its end: three supervisor turns, two coder turns
C12_Witness ==
    /\ script = "done"
    /\ node = END
    /\ state.iteration_count = 3
    /\ Len(state.memory) = 3

ToolCall == call # NoCall /\ call.fn = "ToolExecutor.execute"

\* the entry a call of ToolExecutor.execute has added to the log
Logged == call.results[Len(call.results)]

\* the collaborator was called and raised, KeyError of the lambda included
CollabRaised ==
    /\ call.tool_name \in AVAILABLE_TOOLS
    /\ (~call.tool_input.args \/ call.collab \in {"raise", "raise long"})

\* C13: ToolExecutor.execute with a tool name that is not in the registry
\* returns the output "Unknown tool: <name>" and success = false, and the
\* returned log has one new entry for the call.
C13_UnknownTool ==
    ToolCall /\ call.tool_name \notin AVAILABLE_TOOLS
      => /\ call.output = Text(<< "Unknown tool: ", call.tool_name >>, 0)
         /\ ~call.success
         /\ Len(call.results) = Len(state.tool_results) + 1
         /\ Logged.tool_name = call.tool_name
         /\ ~Logged.success

\* an unknown tool was called on a state that already has a log
C13_Witness ==
    /\ ToolCall
    /\ call.tool_name = "unknown_tool"
    /\ ~call.tool_input.args
    /\ Len(state.tool_results) = 2
    /\ Len(call.results) = 3

\* C14: whatever the tool name, the input and the collaborator's behaviour,
\* ToolExecutor.execute returns to its caller, and the log it returns is the
\* state's tool_results with exactly one entry appended; when the
\* collaborator raised, that entry is a failure that carries the message of
\* the exception.
C14_AlwaysReturnsOneNewEntry ==
    ToolCall
      => /\ ~call.raised
         /\ Len(call.results) = Len(state.tool_results) + 1
         /\ SubSeq(call.results, 1, Len(state.tool_results)) = state.tool_results
         /\ Logged.tool_name = call.tool_name
         /\ CollabRaised
              => /\ ~call.success
                 /\ ~Logged.success
                 /\ LET e == IF call.tool_input.args THEN CollabText(call.collab)
                                                     ELSE KeyErrorText(call.tool_name)
                    IN  /\ Logged.output = Text(<< "Tool execution error: " >> \o e.parts, e.pad)
                        /\ call.output = Logged.output

\* a collaborator raised on a state that already has a log
C14_Witness ==
    /\ ToolCall
    /\ call.tool_name = "write_file"
    /\ call.tool_input.args
    /\ call.collab = "raise"
    /\ Len(state.tool_results) = 1
    /\ ~call.raised
    /\ Len(call.results) = 2

\* C15: the success flag that ToolExecutor.execute returns and logs is true
\* exactly when the tool is registered, the collaborator did not raise and
\* its output does not begin with "Error:".
C15_SuccessFlag ==
    ToolCall
      => /\ Logged.success = call.success
         /\ call.success <=>
              /\ call.tool_name \in AVAILABLE_TOOLS
              /\ ~CollabRaised
              /\ call.collab \notin {"error", "error long"}

\* a registered tool returned a text that begins with "Error:"
C15_Witness ==
    /\ ToolCall
    /\ call.tool_name = "run_command"
    /\ call.tool_input.args
    /\ call.collab = "error"
    /\ ~call.success
    /\ Head(call.output.parts) = "Error:"

\* C16: every entry of tool_results holds an output of at most 1000
\* characters, whatever the outcome of the call, a collaborator that raises
\* an exception with a long message included.
C16_StoredOutputBounded ==
    ToolCall
      => \A i \in DOMAIN call.results : TextLen(call.results[i].output) <= output_limit

ParseCall == call # NoCall /\ call.fn = "parse_json_action"

\* C17: whatever the input text, parse_json_action returns none or an object
\* mapping; a JSON value that is not an object (an array inside a fence tagged
\* json) gives none.
C17_ParserReturnsObjectOrNone ==
    ParseCall => call.result.kind \in {"none", "object"}

\* C18: parse_json_action applied to the JSON serialization of an object
\* mapping returns a mapping equal to it, and so does parse_json_action
\* applied to the same serialization inside a fence tagged json.
C18_ParserRoundTrip ==
    ParseCall /\ call.content.json.kind = "object"
              /\ call.content.layout \in {"bare", "json_fence"}
      => call.result = call.content.json

\* an object whose string holds the tagged fence mark came back from inside a
\* fence tagged json
C18_Witness ==
    /\ ParseCall
    /\ call.content.layout = "json_fence"
    /\ call.content.json = ObjectOf("write_file", TRUE, << Fence, Tag >>)
    /\ call.result = call.content.json

RetryCall == call.fn = "retry_with_backoff"

\* the attempts of a call of retry_with_backoff that return
Successes == { i \in 1..call.max_retries : call.func[i] = "return" }

\* C19: retry_with_backoff calls the function at most max_retries times; it
\* returns the result of the first attempt that succeeds and makes no attempt
\* after it; when every attempt fails it raises the exception of the last
\* attempt to its caller.
C19_RetryWithBackoff ==
    RetryCall
      => /\ call.calls <= call.max_retries
         /\ Successes # {}
              => /\ ~call.raised
                 /\ call.of \in Successes
                 /\ \A i \in Successes : call.of <= i
                 /\ call.calls = call.of
         /\ Successes = {} /\ call.max_retries > 0
              => /\ call.raised
                 /\ call.of = call.max_retries
                 /\ call.calls = call.max_retries

\* a function that fails twice, returns at its third call and would raise
\* at a fourth that max_retries allows
C19_Witness ==
    /\ RetryCall
    /\ call.max_retries >= 4
    /\ SubSeq(call.func, 1, 4) = << "raise", "raise", "return", "raise" >>
    /\ call.calls = 3
    /\ call.of = 3
    /\ ~call.raised

NodeNames ==
    {"supervisor_node", "planner_node", "researcher_node", "coder_node", "reviewer_node"}

\* C20: a model call of the supervisor or of a worker goes through the
\* breaker of the model: a node that runs while the breaker is OPEN (and its
\* timeout has not elapsed) gets the circuit-open signal and the model is not
\* invoked.
C20_OpenBreakerRejectsModelCall ==
    [][ (/\ call'.fn \in NodeNames
         /\ call' # call
         /\ breaker.state = "open"
         /\ now - breaker.last_failure_time < Seconds(timeout_seconds))
          => (call'.calls = 0 /\ call'.llm = "CircuitOpenError") ]_vars

BreakerCalled == call.fn = "CircuitBreaker.call"

Failed(outcome) == outcome \in {"raise", "timeout"}

\* C21: from a CLOSED breaker with failure_count 0, failure_threshold failed
\* calls in a row (exceptions or timeouts) leave the breaker OPEN; fewer
\* leave it CLOSED.
C21_OpensAtThreshold ==
    /\ hist.failures = failure_threshold => breaker.state = "open"
    /\ (0 < hist.failures /\ hist.failures < failure_threshold)
         => breaker.state = "closed" /\ breaker.failure_count = hist.failures

\* the breaker opened at the last of failure_threshold failures, a timeout
C21_Witness ==
    /\ hist.failures = failure_threshold
    /\ BreakerCalled
    /\ call.outcome = "timeout"
    /\ call.before.state = "closed"
    /\ breaker.state = "open"

\* C22: a call made while the breaker is OPEN and less than timeout_seconds
\* after last_failure_time is rejected with CircuitOpenError and the wrapped
\* function is not invoked.
C22_OpenRejects ==
    (/\ BreakerCalled
     /\ call.before.state = "open"
     /\ call.at - call.before.last_failure_time < Seconds(timeout_seconds))
      => /\ call.raised = "CircuitOpenError"
         /\ ~call.invoked
         /\ breaker = call.before

\* a call was rejected some time after the breaker opened
C22_Witness ==
    /\ BreakerCalled
    /\ call.before.state = "open"
    /\ call.at > call.before.last_failure_time
    /\ call.at - call.before.last_failure_time < Seconds(timeout_seconds)
    /\ call.raised = "CircuitOpenError"

\* C23: a call made on an OPEN breaker when now - last_failure_time >=
\* timeout_seconds first moves the breaker to HALF_OPEN with success_count 0,
\* and the wrapped call is then executed.
C23_HalfOpenAfterTimeout ==
    (/\ BreakerCalled
     /\ call.before.state = "open"
     /\ call.at - call.before.last_failure_time >= Seconds(timeout_seconds))
      => /\ call.admitted.state = "half_open"
         /\ call.admitted.success_count = 0
         /\ call.invoked
         /\ call.raised # "CircuitOpenError"

\* the breaker had counted a success in an earlier HALF_OPEN period
C23_Witness ==
    /\ BreakerCalled
    /\ call.before.state = "open"
    /\ call.before.success_count > 0
    /\ call.at - call.before.last_failure_time = Seconds(timeout_seconds)
    /\ call.admitted.state = "half_open"
    /\ call.invoked

\* C24: a successful call while HALF_OPEN adds one to success_count; when
\* success_count reaches success_threshold the breaker goes to CLOSED with
\* failure_count 0; so success_threshold successes in a row in HALF_OPEN
\* close it.
C24_HalfOpenSuccess ==
    /\ (BreakerCalled /\ call.admitted.state = "half_open" /\ call.outcome = "return")
         => /\ breaker.success_count = call.admitted.success_count + 1
            /\ IF breaker.success_count >= success_threshold
               THEN breaker.state = "closed" /\ breaker.failure_count = 0
               ELSE /\ breaker.state = "half_open"
                    /\ breaker.failure_count = call.admitted.failure_count
    /\ hist.successes = success_threshold => breaker.state = "closed"
    /\ (0 < hist.successes /\ hist.successes < success_threshold)
         => breaker.state = "half_open"

\* the breaker closed with failures counted before
C24_Witness ==
    /\ BreakerCalled
    /\ hist.successes = success_threshold
    /\ call.admitted.state = "half_open"
    /\ call.admitted.failure_count > 0
    /\ breaker.state = "closed"
    /\ breaker.failure_count = 0

\* C25: one failed call (exception or timeout) while HALF_OPEN moves the
\* breaker to OPEN at once, whatever success_count is.
C25_HalfOpenFailure ==
    (BreakerCalled /\ call.admitted.state = "half_open" /\ Failed(call.outcome))
      => /\ breaker.state = "open"
         /\ breaker.failure_count = call.admitted.failure_count + 1

\* the failure came after a success in the same HALF_OPEN period
C25_Witness ==
    /\ BreakerCalled
    /\ call.admitted.state = "half_open"
    /\ call.admitted.success_count > 0
    /\ Failed(call.outcome)
    /\ breaker.state = "open"

\* C26: under every interleaving of concurrent calls on one breaker the
\* state changes only CLOSED -> OPEN (a failure bringing failure_count to
\* failure_threshold), OPEN -> HALF_OPEN (a call attempt timeout_seconds
\* after the last failure), HALF_OPEN -> CLOSED (a success bringing
\* success_count to success_threshold) and HALF_OPEN -> OPEN (a failure);
\* never CLOSED -> HALF_OPEN nor OPEN -> CLOSED.
C26_StateMachine ==
    [][ (breaker'.state # breaker.state) =>
            (\/ /\ breaker.state = "closed" /\ breaker'.state = "open"
                /\ call'.step = "complete" /\ Failed(call'.outcome)
                /\ breaker'.failure_count = breaker.failure_count + 1
                /\ breaker'.failure_count >= failure_threshold
             \/ /\ breaker.state = "open" /\ breaker'.state = "half_open"
                /\ call'.step = "admit"
                /\ now - breaker.last_failure_time >= Seconds(timeout_seconds)
             \/ /\ breaker.state = "half_open" /\ breaker'.state = "closed"
                /\ call'.step = "complete" /\ call'.outcome = "return"
                /\ breaker'.success_count = breaker.success_count + 1
                /\ breaker'.success_count >= success_threshold
             \/ /\ breaker.state = "half_open" /\ breaker'.state = "open"
                /\ call'.step = "complete" /\ Failed(call'.outcome)) ]_vars

\* a call admitted before the breaker opened returned while it was OPEN,
\* with one success already counted, after another caller's failure
C26_Witness ==
    /\ BreakerCalled
    /\ call.step = "complete"
    /\ call.outcome = "return"
    /\ call.before.state = "open"
    /\ call.before.success_count + 1 >= success_threshold
    /\ call.at < call.before.last_failure_time + Seconds(call_timeout)
    /\ breaker.state = "open"

Buckets == {limiter.buckets[c] : c \in {d \in Clients : limiter.buckets[d] # None}}

\* C27: after every sequence of admission checks made with clock readings
\* that never decrease, every bucket has 0 <= tokens <= capacity.
C27_TokensInRange ==
    \A bucket \in Buckets :
        /\ 0 <= bucket.tokens
        /\ bucket.tokens <= bucket.capacity * TokenScale

\* a bucket that had been idle longer than it takes to fill was asked again
C27_Witness ==
    /\ call.fn = "is_allowed"
    /\ call.before # None
    /\ ~call.swept
    /\ call.before.tokens + (call.at - call.before.last_update) * call.before.refill_rate
         > call.before.capacity * TokenScale
    /\ limiter.buckets[call.client].tokens = (burst_size - 1) * TokenScale
    /\ \E c \in Clients : limiter.buckets[c] # None /\ limiter.buckets[c].tokens = 0

Burst == hist.burst

\* the tokens a bucket left with `left` holds after `ticks` more ticks
Refilled(left, ticks) == Min(burst_size * TokenScale, left + ticks * requests_per_minute)

\* a new client's bucket, capacity 10 and refill 1 a second, admits exactly
\* 10 immediate requests, then denies the 11th; after waiting one second
\* or more, exactly one further request is admitted.
C28_Original ==
    /\ Burst.phase = "burst" => Burst.admitted <= burst_size
    /\ Burst.phase \in {"denied", "resumed"} => Burst.admitted = burst_size
    /\ (Burst.phase = "resumed" /\ Burst.resumed - Burst.denied_at >= Seconds(1))
         => Burst.allowed = 1

\* C28: a new client's bucket, capacity 10 and refill 1 a second, admits
\* exactly 10 requests made less than a second after its creation, then
\* denies the 11th; of the requests made at one later reading, one is
\* admitted for each whole token the bucket then holds: exactly one when
\* what was left at the denial and the refill of the wait make 1 token or
\* more and less than 2.
C28_BurstThenRefill ==
    /\ Burst.phase = "burst" => Burst.admitted <= burst_size
    /\ Burst.phase \in {"denied", "resumed"} =>
         Burst.admitted = burst_size /\ Burst.left < TokenScale
    /\ Burst.phase = "resumed" =>
         LET tokens == Refilled(Burst.left, Burst.resumed - Burst.denied_at)
         IN  /\ Burst.allowed = Min(Burst.asked, tokens \div TokenScale)
             /\ (TokenScale <= tokens /\ tokens < 2 * TokenScale) => Burst.allowed = 1

\* ten admitted and the 11th denied half a second into the burst, then a
\* wait of a second, after which one of two requests was admitted
C28_Witness ==
    /\ Burst.phase = "resumed"
    /\ Burst.admitted = burst_size
    /\ Burst.denied_at > Burst.created
    /\ Burst.left > 0
    /\ Burst.resumed - Burst.denied_at = Seconds(1)
    /\ Burst.asked = 2
    /\ Burst.allowed = 1
    /\ call.fn = "is_allowed" /\ ~call.allowed

\* C29: in every state of a run error_context is absent or has fatal =
\* false: no node sets fatal = true, so no run stops through the fatal
\* branch of should_continue: a run that stopped had next_step = FINISH or
\* had reached the iteration limit.
C29_NeverFatal ==
    /\ \/ state.error_context = None
       \/ /\ "fatal" \in DOMAIN state.error_context
          /\ state.error_context.fatal = FALSE
    /\ node = END =>
         \/ state.next_step = "FINISH"
         \/ state.iteration_count >= state.max_iterations

\* the coder failed and the run went on to end at the iteration limit with
\* its error_context kept
C29_Witness ==
    /\ node = END
    /\ state.error_context # None
    /\ state.error_context.agent = "coder"
    /\ state.error_context.fatal = FALSE
    /\ state.next_step # "FINISH"
    /\ state.iteration_count = state.max_iterations

\* C30: in a run from create_initial_state with max_iterations >= 1,
\* iteration_count is always the number of supervisor turns completed (a
\* supervisor turn adds one, a worker turn nothing) and never exceeds
\* max_iterations: a run has at most max_iterations supervisor turns and at
\* most max_iterations - 1 worker turns.
C30_IterationCount ==
    /\ state.max_iterations >= 1
    /\ state.iteration_count = hist.supervisor_turns
    /\ state.iteration_count <= state.max_iterations
    /\ hist.worker_turns <= state.max_iterations - 1
    /\ hist.worker_turns <= hist.supervisor_turns

\* a run that used every turn it had, the last supervisor turn failing
C30_Witness ==
    /\ node = END
    /\ state.max_iterations > 1
    /\ hist.supervisor_turns = state.max_iterations
    /\ hist.worker_turns = state.max_iterations - 1
    /\ last.node = "supervisor"
    /\ last.exc

\* C31: when the parser finds no action in the reply of a worker's model
\* call (free text that is not JSON parses to none), the worker calls no
\* tool: it appends the reply alone to messages, leaves tool_results as they
\* were, sets no error_context and hands over to the supervisor.
C31_NoActionNoTool ==
    (/\ call.fn = "worker_node"
     /\ call.llm = "returned"
     /\ call.parsed = NoJson)
      => /\ ~call.raised
         /\ ~call.exc
         /\ call.tool = "none"
         /\ call.out.messages = call.before.messages \o << Message("AI", "reply", Ordinary) >>
         /\ call.out.tool_results = call.before.tool_results
         /\ call.out.error_context = call.before.error_context
         /\ call.out.next_step = "supervisor"
         /\ call.to = "supervisor"

\* the coder was given free text, with a tool result already logged
C31_Witness ==
    /\ call.fn = "worker_node"
    /\ call.name = "coder"
    /\ call.llm = "returned"
    /\ call.content = Prose
    /\ call.parsed = NoJson
    /\ call.before.tool_results # << >>
    /\ call.before.error_context = None
    /\ call.out.error_context = None

C33_NotSerialized ==
    \A c \in Callers : \A d \in Callers \ {c} :
        inflight[c].awaiting =>
            IF inflight[d].awaiting
            THEN ENABLED Complete(d, "return")
            ELSE ENABLED Admit(d)

\* a call admitted after another, which is still in flight, has failed and
\* been counted
C33_Witness ==
    /\ BreakerCalled
    /\ call.step = "complete"
    /\ call.outcome = "raise"
    /\ breaker.failure_count = call.before.failure_count + 1
    /\ \E c \in Callers \ {call.caller} :
          /\ inflight[c].awaiting
          /\ inflight[c].started < call.started

Idle_for(bucket) == now - bucket.last_update

\* C35: the cleanup of buckets runs at most once per cleanup_interval, only
\* from an admission check made more than cleanup_interval after the
\* cleanup before it; it removes every bucket idle for longer than the
\* inactivity threshold and keeps every bucket used within it.
C35_Cleanup ==
    [][ (limiter' # limiter \/ call' # call) =>
          LET due == now - limiter.last_cleanup > Seconds(cleanup_interval)
              old(d) == /\ limiter.buckets[d] # None
                        /\ Idle_for(limiter.buckets[d]) > Seconds(inactive_threshold)
          IN  /\ call'.swept <=> due
              /\ limiter'.last_cleanup = (IF due THEN now ELSE limiter.last_cleanup)
              /\ call'.created <=>
                    (limiter.buckets[call'.client] = None \/ (due /\ old(call'.client)))
              /\ \A d \in Clients \ {call'.client} :
                    limiter'.buckets[d] =
                       (IF due /\ old(d) THEN None ELSE limiter.buckets[d]) ]_vars

\* a second cleanup, more than cleanup_interval after the first, removed the
\* bucket of one client and kept that of the client asking, used exactly
\* inactive_threshold seconds before
C35_Witness ==
    /\ call.fn = "is_allowed"
    /\ call.swept
    /\ ~call.created
    /\ call.client # Watched
    /\ call.at - call.before.last_update = Seconds(inactive_threshold)
    /\ call.last_cleanup > 0
    /\ Burst.phase # "none"
    /\ limiter.buckets[Watched] = None

\* C36: the wait of the retry wrapper between attempts is a suspension that
\* does not block: while one run waits, the other runs of the process can
\* take their steps.
C36_BackoffDoesNotStall ==
    \A r \in Runs : \A q \in Runs \ {r} :
        (inflight[r].at = "sleep" /\ inflight[q].at = "ready") => ENABLED RunStep(q)

Window == hist.window

\* C37: for each client and every interval of length T the rate limiter
\* admits at most capacity + refill_rate * T requests in the interval,
\* whatever requests_per_minute and burst_size it was constructed with, and
\* also when the cleanup removes the client's bucket and a later request
\* creates it again within the interval.
C37_AdmittedIsBounded ==
    Window.open =>
        Window.admitted * TokenScale
           <= limiter.burst_size * TokenScale
              + limiter.requests_per_minute * (now - Window.start)

\* C38: once the breaker has gone OPEN at time t, a call attempted at any
\* time from t + timeout_seconds on is admitted (the breaker goes HALF_OPEN
\* and the call runs), however the calls in flight when it opened end: a
\* late failure of one of them does not put off the end of the open window.
C38_OpenWindowEnds ==
    [][ (/\ call' # call
         /\ call'.step = "admit"
         /\ breaker.state = "open"
         /\ now >= hist.opened_at + Seconds(timeout_seconds))
          => /\ breaker'.state = "half_open"
             /\ call'.raised = "none"
             /\ inflight'[call'.caller].awaiting ]_vars

\* C39: in every reachable state of a breaker whose thresholds are at least
\* 1, failure_count >= 0 and success_count >= 0, a CLOSED breaker has
\* failure_count < failure_threshold and a HALF_OPEN breaker has
\* success_count < success_threshold.
C39_CountsInRange ==
    /\ failure_threshold >= 1 /\ success_threshold >= 1
    /\ breaker.failure_count >= 0
    /\ breaker.success_count >= 0
    /\ breaker.state = "closed" => breaker.failure_count < failure_threshold
    /\ breaker.state = "half_open" => breaker.success_count < success_threshold

\* of two calls admitted in HALF_OPEN one has succeeded, leaving the breaker
\* one success short of closing with the failures that opened it still
\* counted, and the other is in flight
C39_Witness ==
    /\ BreakerCalled
    /\ call.step = "complete"
    /\ call.outcome = "return"
    /\ call.before.state = "half_open"
    /\ breaker.state = "half_open"
    /\ breaker.success_count = success_threshold - 1
    /\ breaker.failure_count >= failure_threshold
    /\ \E c \in Callers : inflight[c].awaiting /\ inflight[c].started = call.started

\* C40: if from some point on every wrapped call succeeds, and calls keep
\* being attempted while time advances, a breaker that is OPEN or HALF_OPEN
\* becomes CLOSED in the end: it does not stay OPEN for ever.  (The clock of
\* the model stops at MaxNow: the open window has to end by then.)
C40_EventuallyClosed ==
    (/\ hist.recovered
     /\ breaker.state \in {"open", "half_open"}
     /\ breaker.last_failure_time + Seconds(timeout_seconds) <= Seconds(MaxNow))
      ~> (breaker.state = "closed")

\* after the recovery the breaker, OPEN when it came, has been closed by
\* successes in HALF_OPEN
C40_Witness ==
    /\ hist.recovered
    /\ BreakerCalled
    /\ call.admitted.state = "half_open"
    /\ call.at >= breaker.last_failure_time + Seconds(timeout_seconds)
    /\ hist.successes = success_threshold
    /\ breaker.state = "closed"

====
